---- MODULE Spec2Model ----
(***************************************************************************)
(* The process supervisor of src/src/main/process-manager.ts               *)
(* (class ProcessManager): port allocation by loopback bind probes, spawn  *)
(* and registration of child processes, the child event handlers, stop,    *)
(* stopAll and the read operations.                                        *)
(*                                                                         *)
(* Text is modelled as a sequence of one-character strings, so that the    *)
(* $PORT substitution, the decimal formatting of the port and the          *)
(* split/join on ' ' are computed, not assumed.                            *)
(***************************************************************************)
EXTENDS Integers, Sequences, FiniteSets, TLC

VARIABLES
    processes,      \* keys of the Map `processes`, in insertion order
    processData,    \* every processData object created so far, by process id
    child,          \* the ChildProcess behind each processData object
    nextProcessId,  \* the counter nextProcessId
    calls,          \* the startProcess calls made so far, by the id they drew
    net,            \* the host's loopback ports: which are bound, which refuse a bind
    last,           \* the operation or handler that ran last, with what it returned,
                    \* emitted and signalled
    outputListeners,\* the listeners of the supervisor's 'output' event
    groupsFile,     \* the groups of project-groups.json, as JSON.parse returns them
    install         \* the installProject call: where it is, the progress it
                    \* reported, its result, and the window the progress goes to

\* the supervisor and the host's ports
supervisor == <<processes, processData, child, nextProcessId, calls, net>>

\* the state of the main process outside the supervisor
elsewhere == <<outputListeners, groupsFile, install>>

vars == <<processes, processData, child, nextProcessId, calls, net, last, elsewhere>>

----------------------------------------------------------------------------
(* Bounds of the model *)

\* startProcess calls made in one behaviour
MaxStarts == 2

\* stdout/stderr chunks received in one behaviour, all children together
MaxOutput == 1

\* the same, in the behaviours that explore the output log of one child
MaxChunks == 3

\* the requested port of an ordinary start call
BasePort == 3000

\* groups created in one groups file
MaxGroups == 2

\* chunks the install command writes in one behaviour
MaxInstallOutput == 3

(* Program constants *)

\* for (let i = 1; i <= 100; i++)
MaxTries == 100

\* net.Server.listen accepts ports 0..65535 and throws on any other
MaxPort == 65535

\* pid: child.pid || null
NullPid == 0

----------------------------------------------------------------------------
(* Text *)

Digits == <<"0", "1", "2", "3", "4", "5", "6", "7", "8", "9">>

\* allocatedPort.toString(): the decimal digits of a non-negative integer
RECURSIVE PortToString(_)
PortToString(n) ==
    IF n < 10 THEN <<Digits[n + 1]>>
    ELSE PortToString(n \div 10) \o <<Digits[(n % 10) + 1]>>

PortPlaceholder == <<"$", "P", "O", "R", "T">>

\* command.replace(/\$PORT/, rep), without the g flag: the first occurrence only
RECURSIVE ReplacePort_FirstOnly(_, _)
ReplacePort_FirstOnly(s, rep) ==
    IF s = <<>> THEN <<>>
    ELSE IF Len(s) >= Len(PortPlaceholder)
            /\ SubSeq(s, 1, Len(PortPlaceholder)) = PortPlaceholder
         THEN rep \o SubSeq(s, Len(PortPlaceholder) + 1, Len(s))
         ELSE <<Head(s)>> \o ReplacePort_FirstOnly(Tail(s), rep)

\* command.replace(/\$PORT/g, rep): every occurrence, scanning left to right
RECURSIVE ReplacePort(_, _)
ReplacePort(s, rep) ==
    IF s = <<>> THEN <<>>
    ELSE IF Len(s) >= Len(PortPlaceholder)
            /\ SubSeq(s, 1, Len(PortPlaceholder)) = PortPlaceholder
         THEN rep \o ReplacePort(SubSeq(s, Len(PortPlaceholder) + 1, Len(s)), rep)
         ELSE <<Head(s)>> \o ReplacePort(Tail(s), rep)

\* finalCommand.split(' '): the pieces between single spaces, empty pieces kept
RECURSIVE SplitSpace(_, _)
SplitSpace(s, cur) ==
    IF s = <<>> THEN <<cur>>
    ELSE IF Head(s) = " " THEN <<cur>> \o SplitSpace(Tail(s), <<>>)
         ELSE SplitSpace(Tail(s), Append(cur, Head(s)))

\* [file, ...args].join(' '), the command line spawn hands to the shell (shell: true)
RECURSIVE JoinSpace(_)
JoinSpace(parts) ==
    IF Len(parts) = 0 THEN <<>>
    ELSE IF Len(parts) = 1 THEN parts[1]
         ELSE parts[1] \o <<" ">> \o JoinSpace(Tail(parts))

StdoutTag == <<"[", "S", "T", "D", "O", "U", "T", "]", " ">>
StderrTag == <<"[", "S", "T", "D", "E", "R", "R", "]", " ">>

----------------------------------------------------------------------------
(* Inputs *)

\* command templates: no placeholder, one, several (one of them inside a word)
OnePortTemplate == <<"d", "e", "v", " ", "-", "p", " ">> \o PortPlaceholder

Templates ==
    { <<"r", "u", "n">>,
      OnePortTemplate,
      PortPlaceholder \o <<":">> \o PortPlaceholder \o <<"x", " ", "y">> }

ProjectNames == {"app"}

Types == {"other"}

RequestedPorts == {BasePort, MaxPort - 1}

Chunks == { <<"o", "k">> }

\* the chunks of the behaviours that explore the output log: two texts, so that
\* the order of two chunks of one stream shows
OutputChunks == { <<"o", "k">>, <<"n", "o">> }

ExitCodes == {0, 1, -1}   \* -1 stands for code null (the child died of a signal)

\* the states of the host's ports a behaviour starts in: the first k ports from
\* BasePort bound by someone else, the next one refusing a bind for another reason
\* or not; and the two highest ports bound
PrefixLens == {0, 1, 2, MaxTries, MaxTries + 1}

NetStates ==
    UNION { { [inUse |-> BasePort .. (BasePort + k - 1), denied |-> d] :
                d \in {{}, {BasePort + k}} } : k \in PrefixLens }
    \cup { [inUse |-> {MaxPort - 1, MaxPort}, denied |-> {}] }

\* the port state in which concurrent start calls are explored: the requested
\* port is bound by someone else, the ports after it are free
FewNetStates == { [inUse |-> {BasePort}, denied |-> {}] }

----------------------------------------------------------------------------
(* checkPort and findAvailablePort *)

\* what the probe server.listen(port, '127.0.0.1') ends in
BindOutcome(port) ==
    IF port > MaxPort THEN "throw"
    ELSE IF port \in net.inUse THEN "EADDRINUSE"
    ELSE IF port \in net.denied THEN "EACCES"
    ELSE "listening"

\* checkPort taking a port for in use also when a registered process was given it
CheckPort_ConsultsRegistry(port, outcome) ==
    IF outcome = "EADDRINUSE"
          \/ \E k \in 1 .. Len(processes) : processData[processes[k]].port = port
    THEN -1 ELSE port

\* checkPort with every 'error' event taken for 'address in use'
CheckPort_AnyErrorInUse(port, outcome) ==
    IF outcome \in {"EADDRINUSE", "EACCES"} THEN -1 ELSE port

\* checkPort: the value the promise resolves to when the probe ends in `outcome`
\* (an 'error' event with code EADDRINUSE, another 'error' event, or 'listening')
CheckPort(port, outcome) ==
    IF outcome = "EADDRINUSE" THEN -1 ELSE port

\* findAvailablePort without the limit of its loop
FindAvailablePort_NoLimit(startPort, i, result) ==
    IF result = startPort + i THEN [done |-> TRUE, port |-> startPort + i, next |-> i]
    ELSE [done |-> FALSE, port |-> -1, next |-> i + 1]

\* findAvailablePort with the loop stepping over every second candidate
FindAvailablePort_SkipsCandidate(startPort, i, result) ==
    IF result = startPort + i THEN [done |-> TRUE, port |-> startPort + i, next |-> i]
    ELSE IF i < MaxTries THEN [done |-> FALSE, port |-> -1, next |-> i + 2]
    ELSE [done |-> TRUE, port |-> startPort, next |-> i]

\* findAvailablePort giving up with the last candidate instead of startPort
FindAvailablePort_LastCandidate(startPort, i, result) ==
    IF result = startPort + i THEN [done |-> TRUE, port |-> startPort + i, next |-> i]
    ELSE IF i < MaxTries THEN [done |-> FALSE, port |-> -1, next |-> i + 1]
    ELSE [done |-> TRUE, port |-> startPort + i, next |-> i]

\* findAvailablePort, one await at a time: `i` is the offset of the probe that has
\* just resolved to `result` (0 for the probe of startPort itself). The search is
\* over with `port`, or goes on with the probe of startPort + next.
FindAvailablePort(startPort, i, result) ==
    IF result = startPort + i THEN [done |-> TRUE, port |-> startPort + i, next |-> i]
    ELSE IF i < MaxTries THEN [done |-> FALSE, port |-> -1, next |-> i + 1]
    ELSE [done |-> TRUE, port |-> startPort, next |-> i]

----------------------------------------------------------------------------
(* The registry and the records in it *)

Range(seq) == { seq[k] : k \in 1 .. Len(seq) }

\* Map.has
Registered(id) == id \in Range(processes)

\* a Map whose set puts a new key first
MapSet_Front(keys, id) == IF id \in Range(keys) THEN keys ELSE <<id>> \o keys

\* Map.set: a new key goes last, an existing key keeps its place
MapSet(keys, id) == IF id \in Range(keys) THEN keys ELSE Append(keys, id)

\* Map.delete
MapDelete(keys, id) == SelectSeq(keys, LAMBDA k : k # id)

\* the object literal getProcess, getAllProcesses and startProcess return: the
\* fields are copied, `output` is the array of the processData object itself
\* (held here as the id of that object)
Snapshot(d) ==
    [id |-> d.id, projectName |-> d.projectName, command |-> d.command,
     port |-> d.port, pid |-> d.pid, status |-> d.status, output |-> d.id,
     type |-> d.type]

\* a notification handed to this.emit: `code` is <<c>> for processExit and `text`
\* the tagged chunk for output; both are empty for the other events. `seen` is
\* what getProcess(id) returns to a listener, which runs inside emit: <<>> for
\* null
Notification(event, id, code, text, seen) ==
    [event |-> event, id |-> id, code |-> code, text |-> text, seen |-> seen]

\* what getProcess(id) returns while a handler of the child of `id` runs, the
\* handler having set the status to `status` and the registry being as before
SeenBy(id, status) ==
    IF Registered(id)
    THEN <<Snapshot([processData[id] EXCEPT !.status = status])>>
    ELSE <<>>

\* what `last` records of one operation
Op(op, id, ret, snaps, emits, kills) ==
    [op |-> op, id |-> id, ret |-> ret, snaps |-> snaps, emits |-> emits,
     kills |-> kills]

----------------------------------------------------------------------------
(* Init *)

\* the supervisor as constructed (lines 18-19)
Constructed ==
    /\ processes = <<>>
    /\ processData = <<>>
    /\ child = <<>>
    /\ nextProcessId = 1
    /\ calls = <<>>
    /\ last = Op("new", 0, FALSE, <<>>, <<>>, {})

\* the main process at startup, outside the supervisor: ipcMain.handle has
\* registered the handlers and none has run
Unused ==
    /\ outputListeners = 0
    /\ groupsFile = <<>>
    /\ install = [pc |-> "idle", events |-> <<>>, result |-> "none",
                  config |-> "unknown", ran |-> FALSE, outputs |-> 0,
                  sender |-> "open", threw |-> FALSE, error |-> "none"]

Init == Constructed /\ Unused /\ net \in FewNetStates

InitAllocation == Constructed /\ Unused /\ net \in NetStates

----------------------------------------------------------------------------
(* startProcess *)

\* `process-${n}`: the id string made of the counter's value
ProcessIdText(n) == <<"p", "r", "o", "c", "e", "s", "s", "-">> \o PortToString(n)

\* startProcess reading the counter without advancing it
StartProcess_NoIncrement(projectName, command, port, type) ==
    /\ nextProcessId <= MaxStarts
    /\ calls' = calls @@ (nextProcessId :>
                    [pc |-> "probing", projectName |-> projectName,
                     command |-> command, port |-> port, type |-> type,
                     i |-> 0, allocatedPort |-> -1, returned |-> <<>>,
                     thrown |-> "none"])
    /\ nextProcessId' = nextProcessId
    /\ last' = Op("startProcess", nextProcessId, FALSE, <<>>, <<>>, {})
    /\ UNCHANGED <<processes, processData, child, net, elsewhere>>

\* line 28, and the call of findAvailablePort up to its first await
StartProcessCall(projectName, command, port, type) ==
    /\ nextProcessId <= MaxStarts
    /\ calls' = calls @@ (nextProcessId :>
                    [pc |-> "probing", projectName |-> projectName,
                     command |-> command, port |-> port, type |-> type,
                     i |-> 0, allocatedPort |-> -1, returned |-> <<>>,
                     thrown |-> "none"])
    /\ nextProcessId' = nextProcessId + 1
    /\ last' = Op("startProcess", nextProcessId, FALSE, <<>>, <<>>, {})
    /\ UNCHANGED <<processes, processData, child, net>>

\* startProcess called by anything but the 'process:start' handler
StartProcess(projectName, command, port, type) ==
    /\ StartProcessCall(projectName, command, port, type)
    /\ UNCHANGED elsewhere

\* what spawn(executable, args, {cwd, stdio, shell: true}) can do: hand back a
\* running child, hand back a child whose launch failed (no pid; an 'error' event
\* follows and no 'exit'), or throw
SpawnOutcomes == {"ok", "failed", "throw"}

\* the processData object with the requested port in place of the allocated one
NewProcessData_RequestedPort(processId, c, finalCommand, allocatedPort, spawned) ==
    [id |-> processId, projectName |-> c.projectName, command |-> finalCommand,
     port |-> c.port,
     pid |-> IF spawned = "ok" THEN processId ELSE NullPid,
     status |-> "running", output |-> <<>>, type |-> c.type]

\* lines 43-54: the processData object
NewProcessData(processId, c, finalCommand, allocatedPort, spawned) ==
    [id |-> processId, projectName |-> c.projectName, command |-> finalCommand,
     port |-> allocatedPort,
     pid |-> IF spawned = "ok" THEN processId ELSE NullPid,
     status |-> "running", output |-> <<>>, type |-> c.type]

\* startProcess registering the entry before it calls spawn, so that a throwing
\* spawn leaves the entry behind
SpawnAndRegister_RegistersFirst(processId, allocatedPort, spawned) ==
    LET c == calls[processId]
        finalCommand == ReplacePort(c.command, PortToString(allocatedPort))
        parts == SplitSpace(finalCommand, <<>>)
        data == NewProcessData(processId, c, finalCommand, allocatedPort, spawned)
    IN  /\ child' = child @@ (processId :>
               [state |-> IF spawned = "ok" THEN "alive" ELSE "failed",
                spawnargs |-> JoinSpace(parts)])
        /\ processData' = processData @@ (processId :> data)
        /\ processes' = MapSet(processes, processId)
        /\ IF spawned = "throw"
           THEN /\ calls' = [calls EXCEPT ![processId].pc = "rejected",
                                          ![processId].allocatedPort = allocatedPort,
                                          ![processId].thrown = "spawn"]
                /\ last' = Op("startProcess", processId, FALSE, <<>>, <<>>, {})
           ELSE /\ calls' = [calls EXCEPT ![processId].pc = "resolved",
                                          ![processId].allocatedPort = allocatedPort,
                                          ![processId].returned = <<Snapshot(data)>>]
                /\ last' = Op("startProcess", processId, TRUE, <<Snapshot(data)>>,
                              <<Notification("processStarted", processId, <<>>, <<>>,
                                            <<Snapshot(data)>>)>>,
                              {})

\* startProcess emitting processStarted before processes.set, so that a listener
\* does not find the entry yet
SpawnAndRegister_EmitsBeforeSet(processId, allocatedPort, spawned) ==
    LET c == calls[processId]
        finalCommand == ReplacePort(c.command, PortToString(allocatedPort))
        parts == SplitSpace(finalCommand, <<>>)
        data == NewProcessData(processId, c, finalCommand, allocatedPort, spawned)
    IN  IF spawned = "throw"
        THEN /\ calls' = [calls EXCEPT ![processId].pc = "rejected",
                                       ![processId].allocatedPort = allocatedPort,
                                       ![processId].thrown = "spawn"]
             /\ last' = Op("startProcess", processId, FALSE, <<>>, <<>>, {})
             /\ UNCHANGED <<processes, processData, child>>
        ELSE /\ child' = child @@ (processId :>
                    [state |-> IF spawned = "ok" THEN "alive" ELSE "failed",
                     spawnargs |-> JoinSpace(parts)])
             /\ processData' = processData @@ (processId :> data)
             /\ processes' = MapSet(processes, processId)
             /\ calls' = [calls EXCEPT ![processId].pc = "resolved",
                                       ![processId].allocatedPort = allocatedPort,
                                       ![processId].returned = <<Snapshot(data)>>]
             /\ last' = Op("startProcess", processId, TRUE, <<Snapshot(data)>>,
                           <<Notification("processStarted", processId, <<>>, <<>>,
                                          <<>>)>>,
                           {})

\* lines 31-100: what startProcess does once findAvailablePort has returned
SpawnAndRegister(processId, allocatedPort, spawned) ==
    LET c == calls[processId]
        finalCommand == ReplacePort(c.command, PortToString(allocatedPort))
        parts == SplitSpace(finalCommand, <<>>)
        data == NewProcessData(processId, c, finalCommand, allocatedPort, spawned)
    IN  IF spawned = "throw"
        THEN /\ calls' = [calls EXCEPT ![processId].pc = "rejected",
                                       ![processId].allocatedPort = allocatedPort,
                                       ![processId].thrown = "spawn"]
             /\ last' = Op("startProcess", processId, FALSE, <<>>, <<>>, {})
             /\ UNCHANGED <<processes, processData, child>>
        ELSE /\ child' = child @@ (processId :>
                    [state |-> IF spawned = "ok" THEN "alive" ELSE "failed",
                     spawnargs |-> JoinSpace(parts)])
             /\ processData' = processData @@ (processId :> data)
             /\ processes' = MapSet(processes, processId)
             /\ calls' = [calls EXCEPT ![processId].pc = "resolved",
                                       ![processId].allocatedPort = allocatedPort,
                                       ![processId].returned = <<Snapshot(data)>>]
             /\ last' = Op("startProcess", processId, TRUE, <<Snapshot(data)>>,
                           <<Notification("processStarted", processId, <<>>, <<>>,
                                            <<Snapshot(data)>>)>>,
                           {})

\* a probe of a suspended startProcess call completes, and the call runs on to
\* its next await or to its end
ProbeCompletes(processId) ==
    /\ processId \in DOMAIN calls
    /\ calls[processId].pc = "probing"
    /\ LET c == calls[processId]
           candidate == c.port + c.i
           outcome == BindOutcome(candidate)
           found == FindAvailablePort(c.port, c.i, CheckPort(candidate, outcome))
       IN  IF outcome = "throw"
           THEN /\ calls' = [calls EXCEPT ![processId].pc = "rejected",
                                          ![processId].thrown = "listen"]
                /\ last' = Op("startProcess", processId, FALSE, <<>>, <<>>, {})
                /\ UNCHANGED <<processes, processData, child>>
           ELSE IF ~found.done
           THEN /\ calls' = [calls EXCEPT ![processId].i = found.next]
                /\ last' = Op("checkPort", processId, FALSE, <<>>, <<>>, {})
                /\ UNCHANGED <<processes, processData, child>>
           ELSE \E spawned \in SpawnOutcomes :
                    SpawnAndRegister(processId, found.port, spawned)
    /\ UNCHANGED <<nextProcessId, net, elsewhere>>

----------------------------------------------------------------------------
(* The handlers startProcess puts on the child *)

\* the chunks received so far, all children together
RECURSIVE SumOutput(_)
SumOutput(ids) ==
    IF ids = {} THEN 0
    ELSE LET id == CHOOSE x \in ids : TRUE
         IN  Len(processData[id].output) + SumOutput(ids \ {id})

Received == SumOutput(DOMAIN processData)

\* the data handler putting the chunk at the front of the log
ChildData_Prepends(processId, stream, tag, chunk) ==
    /\ processId \in DOMAIN child
    /\ child[processId].state \in {"alive", "exited"}
    /\ processData' = [processData EXCEPT
                            ![processId].output = <<tag \o chunk>> \o @]
    /\ last' = Op(stream, processId, FALSE, <<>>,
                  <<Notification("output", processId, <<>>, tag \o chunk,
                                 SeenBy(processId, processData[processId].status))>>,
                  {})
    /\ UNCHANGED <<processes, child, nextProcessId, calls, net, elsewhere>>

\* the data handler forwarding the chunk without its tag
ChildData_EmitsUntagged(processId, stream, tag, chunk) ==
    /\ processId \in DOMAIN child
    /\ child[processId].state \in {"alive", "exited"}
    /\ processData' = [processData EXCEPT ![processId].output = Append(@, tag \o chunk)]
    /\ last' = Op(stream, processId, FALSE, <<>>,
                  <<Notification("output", processId, <<>>, chunk,
                                 SeenBy(processId, processData[processId].status))>>,
                  {})
    /\ UNCHANGED <<processes, child, nextProcessId, calls, net, elsewhere>>

\* child.stdout.on('data') and child.stderr.on('data'): the streams of a launched
\* child deliver chunks while it runs and, until they close, after its 'exit'
ChildData(processId, stream, tag, chunk) ==
    /\ processId \in DOMAIN child
    /\ child[processId].state \in {"alive", "exited"}
    /\ processData' = [processData EXCEPT ![processId].output = Append(@, tag \o chunk)]
    /\ last' = Op(stream, processId, FALSE, <<>>,
                  <<Notification("output", processId, <<>>, tag \o chunk,
                                 SeenBy(processId, processData[processId].status))>>,
                  {})
    /\ UNCHANGED <<processes, child, nextProcessId, calls, net, elsewhere>>

StdoutData(processId, chunk) == ChildData(processId, "stdout", StdoutTag, chunk)

StderrData(processId, chunk) == ChildData(processId, "stderr", StderrTag, chunk)

\* the exit handler's status with every exit taken for a graceful one
ExitStatus_AlwaysStopped(code) == "stopped"

\* the exit handler putting a child that exits with code 0 back to running
ExitStatus_RunningOnZero(code) == IF code = 0 THEN "running" ELSE "error"

\* line 72: code === 0 ? 'stopped' : 'error'
ExitStatus(code) == IF code = 0 THEN "stopped" ELSE "error"

\* the exit handler clearing the registry in place of deleting its own entry
ChildExit_ClearsRegistry(processId, code) ==
    /\ processId \in DOMAIN child
    /\ child[processId].state = "alive"
    /\ child' = [child EXCEPT ![processId].state = "exited"]
    /\ processData' = [processData EXCEPT ![processId].status = ExitStatus(code)]
    /\ processes' = <<>>
    /\ last' = Op("exit", processId, FALSE, <<>>,
                  <<Notification("processExit", processId, <<code>>, <<>>,
                                 SeenBy(processId, ExitStatus(code)))>>, {})
    /\ UNCHANGED <<nextProcessId, calls, net, elsewhere>>

\* the exit handler without its processes.delete
ChildExit_KeepsEntry(processId, code) ==
    /\ processId \in DOMAIN child
    /\ child[processId].state = "alive"
    /\ child' = [child EXCEPT ![processId].state = "exited"]
    /\ processData' = [processData EXCEPT ![processId].status = ExitStatus(code)]
    /\ last' = Op("exit", processId, FALSE, <<>>,
                  <<Notification("processExit", processId, <<code>>, <<>>,
                                 SeenBy(processId, ExitStatus(code)))>>, {})
    /\ UNCHANGED <<processes, nextProcessId, calls, net, elsewhere>>

\* child.on('exit')
ChildExit(processId, code) ==
    /\ processId \in DOMAIN child
    /\ child[processId].state = "alive"
    /\ child' = [child EXCEPT ![processId].state = "exited"]
    /\ processData' = [processData EXCEPT ![processId].status = ExitStatus(code)]
    /\ processes' = MapDelete(processes, processId)
    /\ last' = Op("exit", processId, FALSE, <<>>,
                  <<Notification("processExit", processId, <<code>>, <<>>,
                                 SeenBy(processId, ExitStatus(code)))>>, {})
    /\ UNCHANGED <<nextProcessId, calls, net, elsewhere>>

\* the error handler launching the command again, with success
ChildError_Retries(processId) ==
    /\ processId \in DOMAIN child
    /\ child[processId].state = "failed"
    /\ child' = [child EXCEPT ![processId].state = "alive"]
    /\ processData' = [processData EXCEPT ![processId].status = "running"]
    /\ last' = Op("error", processId, FALSE, <<>>,
                  <<Notification("processError", processId, <<>>, <<>>,
                                 SeenBy(processId, "error"))>>, {})
    /\ UNCHANGED <<processes, nextProcessId, calls, net, elsewhere>>

\* child.on('error'), as delivered after a failed launch: no 'exit' follows it
ChildError(processId) ==
    /\ processId \in DOMAIN child
    /\ child[processId].state = "failed"
    /\ child' = [child EXCEPT ![processId].state = "errored"]
    /\ processData' = [processData EXCEPT ![processId].status = "error"]
    /\ last' = Op("error", processId, FALSE, <<>>,
                  <<Notification("processError", processId, <<>>, <<>>,
                                 SeenBy(processId, "error"))>>, {})
    /\ UNCHANGED <<processes, nextProcessId, calls, net, elsewhere>>

\* the command the child runs binds the port it was started for, if that port
\* is still free
ChildBinds(processId) ==
    /\ processId \in DOMAIN child
    /\ child[processId].state = "alive"
    /\ BindOutcome(processData[processId].port) = "listening"
    /\ net' = [net EXCEPT !.inUse = @ \cup {processData[processId].port}]
    /\ last' = Op("listen", processId, FALSE, <<>>, <<>>, {})
    /\ UNCHANGED <<processes, processData, child, nextProcessId, calls, elsewhere>>

----------------------------------------------------------------------------
(* stopProcess and stopAllProcesses *)

\* what child.kill() can do: deliver the signal and return true; return false
\* with nothing done (the process is gone already, or was never launched); or
\* fail to deliver it, emit 'error' on the child before it returns, and return false
KillOutcomes(state) ==
    IF state = "alive" THEN {"delivered", "gone", "error"} ELSE {"gone"}

\* what the 'error' handler emits when child.kill() emits 'error'
KillEmits(processId, outcome) ==
    IF outcome = "error"
    THEN <<Notification("processError", processId, <<>>, <<>>,
                        SeenBy(processId, "error"))>>
    ELSE <<>>

\* stopProcess removing the entry it stops
StopProcess_RemovesEntry(processId) ==
    /\ IF ~Registered(processId) \/ processId \notin DOMAIN child
       THEN /\ last' = Op("stopProcess", processId, FALSE, <<>>, <<>>, {})
            /\ UNCHANGED <<processData, processes>>
       ELSE \E outcome \in KillOutcomes(child[processId].state) :
                /\ processData' = [processData EXCEPT ![processId].status = "stopped"]
                /\ processes' = MapDelete(processes, processId)
                /\ last' = Op("stopProcess", processId, TRUE, <<>>,
                              KillEmits(processId, outcome), {processId})
    /\ UNCHANGED <<child, nextProcessId, calls, net, elsewhere>>

\* stopProcess looking the id up among all processData objects, not in the Map
StopProcess_AnyObject(processId) ==
    /\ IF processId \notin DOMAIN processData
       THEN /\ last' = Op("stopProcess", processId, FALSE, <<>>, <<>>, {})
            /\ UNCHANGED processData
       ELSE \E outcome \in KillOutcomes(child[processId].state) :
                /\ processData' = [processData EXCEPT ![processId].status = "stopped"]
                /\ last' = Op("stopProcess", processId, TRUE, <<>>,
                              KillEmits(processId, outcome), {processId})
    /\ UNCHANGED <<processes, child, nextProcessId, calls, net, elsewhere>>

StopProcess(processId) ==
    /\ IF ~Registered(processId) \/ processId \notin DOMAIN child
       THEN /\ last' = Op("stopProcess", processId, FALSE, <<>>, <<>>, {})
            /\ UNCHANGED processData
       ELSE \E outcome \in KillOutcomes(child[processId].state) :
                /\ processData' = [processData EXCEPT ![processId].status = "stopped"]
                /\ last' = Op("stopProcess", processId, TRUE, <<>>,
                              KillEmits(processId, outcome), {processId})
    /\ UNCHANGED <<processes, child, nextProcessId, calls, net, elsewhere>>

RECURSIVE Flatten(_)
Flatten(seqs) == IF seqs = <<>> THEN <<>> ELSE Head(seqs) \o Flatten(Tail(seqs))

\* stopAllProcesses with a failed kill ending the loop before processes.clear()
StopAllProcesses_StopsAtFailure ==
    \E outcomes \in [Range(processes) -> {"delivered", "gone", "error"}] :
        /\ \A id \in Range(processes) : outcomes[id] \in KillOutcomes(child[id].state)
        /\ processData' = [id \in DOMAIN processData |->
                        IF Registered(id) /\ id \in DOMAIN child
                        THEN [processData[id] EXCEPT !.status = "stopped"]
                        ELSE processData[id]]
        /\ processes' = IF \E id \in Range(processes) : outcomes[id] = "error"
                        THEN processes ELSE <<>>
        /\ last' = Op("stopAllProcesses", 0, FALSE, <<>>,
                      Flatten([k \in 1 .. Len(processes) |->
                                  KillEmits(processes[k], outcomes[processes[k]])]),
                      Range(processes))
        /\ UNCHANGED <<child, nextProcessId, calls, net, elsewhere>>

StopAllProcesses ==
    \E outcomes \in [Range(processes) -> {"delivered", "gone", "error"}] :
        /\ \A id \in Range(processes) : outcomes[id] \in KillOutcomes(child[id].state)
        /\ processData' = [id \in DOMAIN processData |->
                        IF Registered(id) /\ id \in DOMAIN child
                        THEN [processData[id] EXCEPT !.status = "stopped"]
                        ELSE processData[id]]
        /\ processes' = <<>>
        /\ last' = Op("stopAllProcesses", 0, FALSE, <<>>,
                      Flatten([k \in 1 .. Len(processes) |->
                                  KillEmits(processes[k], outcomes[processes[k]])]),
                      Range(processes))
        /\ UNCHANGED <<child, nextProcessId, calls, net, elsewhere>>

----------------------------------------------------------------------------
(* getProcess and getAllProcesses *)

\* the value getProcess returns, <<>> standing for null
GetProcessResult(processId) ==
    IF ~Registered(processId) THEN <<>> ELSE <<Snapshot(processData[processId])>>

\* the array getAllProcesses returns
GetAllProcessesResult ==
    [k \in 1 .. Len(processes) |-> Snapshot(processData[processes[k]])]

\* the two reads change nothing
GetProcess(processId) ==
    /\ Len(GetProcessResult(processId)) <= 1
    /\ UNCHANGED vars

GetAllProcesses ==
    /\ Len(GetAllProcessesResult) = Len(processes)
    /\ UNCHANGED vars

----------------------------------------------------------------------------
(* The specification *)

\* the ids a caller may pass: every id issued, and one that never is
ProcessIds == 1 .. (MaxStarts + 1)

\* the children write: at most maxOutput chunks in all, drawn from `chunks`
Output(maxOutput, chunks) ==
    /\ Received < maxOutput
    /\ \/ \E processId \in ProcessIds, chunk \in chunks : StdoutData(processId, chunk)
       \/ \E processId \in ProcessIds, chunk \in chunks : StderrData(processId, chunk)

\* everything but the call of startProcess
Events ==
    \/ \E processId \in ProcessIds : ProbeCompletes(processId)
    \/ Output(MaxOutput, Chunks)
    \/ \E processId \in ProcessIds, code \in ExitCodes : ChildExit(processId, code)
    \/ \E processId \in ProcessIds : ChildError(processId)
    \/ \E processId \in ProcessIds : StopProcess(processId)
    \/ StopAllProcesses
    \/ \E processId \in ProcessIds : GetProcess(processId)
    \/ GetAllProcesses

\* up to MaxStarts start calls, concurrent, for one port and one template
Next ==
    \/ \E projectName \in ProjectNames, type \in Types :
            StartProcess(projectName, OnePortTemplate, BasePort, type)
    \/ Events

Spec == Init /\ [][Next]_vars

\* the same behaviours, in which no event that is due stays undelivered: a
\* pending probe completes, the 'error' event of a failed launch is delivered,
\* and a running child exits at some time. The calls of the supervisor's
\* methods are up to its callers.
SpecFair ==
    /\ Init
    /\ [][Next]_vars
    /\ WF_vars(\E processId \in ProcessIds : ProbeCompletes(processId))
    /\ WF_vars(\E processId \in ProcessIds : ChildError(processId))
    /\ WF_vars(\E processId \in ProcessIds, code \in ExitCodes :
                  ChildExit(processId, code))

\* one start call and every event, no event that is due staying undelivered
NextOne ==
    \/ /\ calls = <<>>
       /\ \E projectName \in ProjectNames, type \in Types :
               StartProcess(projectName, OnePortTemplate, BasePort, type)
    \/ Events

SpecOneFair ==
    /\ Init
    /\ [][NextOne]_vars
    /\ WF_vars(\E processId \in ProcessIds : ProbeCompletes(processId))
    /\ WF_vars(\E processId \in ProcessIds : ChildError(processId))
    /\ WF_vars(\E processId \in ProcessIds, code \in ExitCodes :
                  ChildExit(processId, code))

\* one start call, for every template and requested port, in every port state
NextAllocation ==
    \/ /\ calls = <<>>
       /\ \E projectName \in ProjectNames, command \in Templates,
             port \in RequestedPorts, type \in Types :
               StartProcess(projectName, command, port, type)
    \/ Events

SpecAllocation == InitAllocation /\ [][NextAllocation]_vars

\* the output of one child, at length: one start call, the child writing up to
\* MaxChunks chunks, exiting and being stopped
NextOutput ==
    \/ /\ calls = <<>>
       /\ \E projectName \in ProjectNames, type \in Types :
               StartProcess(projectName, OnePortTemplate, BasePort, type)
    \/ \E processId \in ProcessIds : ProbeCompletes(processId)
    \/ Output(MaxChunks, OutputChunks)
    \/ \E processId \in ProcessIds, code \in ExitCodes : ChildExit(processId, code)
    \/ \E processId \in ProcessIds : StopProcess(processId)

SpecOutput == Init /\ [][NextOutput]_vars

\* concurrent start calls for one port, with the children binding their ports
NextRace ==
    \/ \E projectName \in ProjectNames, type \in Types :
            StartProcess(projectName, OnePortTemplate, BasePort, type)
    \/ \E processId \in ProcessIds : ProbeCompletes(processId)
    \/ \E processId \in ProcessIds : ChildBinds(processId)
    \/ \E processId \in ProcessIds : StopProcess(processId)

SpecRace == Init /\ [][NextRace]_vars

----------------------------------------------------------------------------
(* The 'process:start' handler of src/src/main/ipc-handlers.ts *)

\* lines 279-283: the handler attaches a listener to the supervisor's 'output'
\* event, then calls startProcess. Nothing detaches the listener, whether the
\* call resolves or rejects.
IpcProcessStart(projectName, command, port, type) ==
    /\ outputListeners' = outputListeners + 1
    /\ StartProcessCall(projectName, command, port, type)
    /\ UNCHANGED <<groupsFile, install>>

\* emit('output', n) calls every listener attached, in turn; each sends one
\* 'process:output' message carrying n's processId and output (line 280)
Forwarded(n) ==
    [k \in 1 .. outputListeners |->
        [channel |-> "process:output", processId |-> n.id, output |-> n.text]]

\* the messages sent to the renderer by the operation that ran last
Sent ==
    Flatten([k \in 1 .. Len(last.emits) |->
                IF last.emits[k].event = "output"
                THEN Forwarded(last.emits[k])
                ELSE <<>>])

\* start requests coming through the handler, the children writing, exiting
\* and being stopped
NextIpc ==
    \/ \E projectName \in ProjectNames, type \in Types :
            IpcProcessStart(projectName, OnePortTemplate, BasePort, type)
    \/ \E processId \in ProcessIds : ProbeCompletes(processId)
    \/ Output(MaxOutput, Chunks)
    \/ \E processId \in ProcessIds, code \in ExitCodes : ChildExit(processId, code)
    \/ \E processId \in ProcessIds : StopProcess(processId)

SpecIpc == Init /\ [][NextIpc]_vars

----------------------------------------------------------------------------
(* The groups store of src/unnamed/part_004 (class ProjectGroupsService) *)

\* what generateId can return, and what a caller can pass as a group id
GroupIds == {"g1", "g2", "g3"}

GroupNames == {"a", "b"}

RepoNames == {"r1", "r2"}

\* what `last` records of one operation of the groups store
GroupOp(op, groupId, repoName, ret, value) ==
    [op |-> op, id |-> groupId, repoName |-> repoName, ret |-> ret,
     value |-> value]

\* readGroupsData: the parsed file, or { groups: [] } when reading or parsing
\* throws (lines 39-42)
ReadGroupsData(readOk) == IF readOk THEN groupsFile ELSE <<>>

\* groups.findIndex(g => g.id === groupId), counted from 1: 0 stands for -1
FindIndex(groups, groupId) ==
    IF \E k \in 1 .. Len(groups) : groups[k].id = groupId
    THEN CHOOSE k \in 1 .. Len(groups) :
            /\ groups[k].id = groupId
            /\ \A j \in 1 .. (k - 1) : groups[j].id # groupId
    ELSE 0

\* repoNames.filter(name => name !== repoName)
Without(repoNames, repoName) ==
    SelectSeq(repoNames, LAMBDA name : name # repoName)

\* repoNames.includes(repoName)
Includes(repoNames, repoName) ==
    \E k \in 1 .. Len(repoNames) : repoNames[k] = repoName

\* writeGroupsData(data), then `return value`: a write that fails throws, and
\* the file keeps what it held
WriteAndReturn(op, groupId, repoName, data, value) ==
    \E writeOk \in BOOLEAN :
        /\ groupsFile' = IF writeOk THEN data ELSE groupsFile
        /\ last' = IF writeOk
                   THEN GroupOp(op, groupId, repoName, "returned", <<value>>)
                   ELSE GroupOp(op, groupId, repoName, "thrown", <<>>)
        /\ UNCHANGED <<supervisor, outputListeners, install>>

\* `return null` (`return false` in deleteGroup) before any write
ReturnWithoutWrite(op, groupId, repoName, ret) ==
    /\ last' = GroupOp(op, groupId, repoName, ret, <<>>)
    /\ UNCHANGED <<supervisor, elsewhere>>

\* createGroup; nothing in generateId looks at the ids in the file
CreateGroup(name) ==
    \E readOk \in BOOLEAN, id \in GroupIds :
        LET data == ReadGroupsData(readOk)
            newGroup == [id |-> id, name |-> name, repoNames |-> <<>>]
        IN  /\ Len(data) < MaxGroups
            /\ WriteAndReturn("createGroup", id, "", Append(data, newGroup),
                              newGroup)

\* updateGroup with updates = { name }
UpdateGroup(groupId, name) ==
    \E readOk \in BOOLEAN :
        LET data == ReadGroupsData(readOk)
            groupIndex == FindIndex(data, groupId)
            updated == [data EXCEPT ![groupIndex].name = name]
        IN  IF groupIndex = 0
            THEN ReturnWithoutWrite("updateGroup", groupId, "", "null")
            ELSE WriteAndReturn("updateGroup", groupId, "", updated,
                                updated[groupIndex])

\* deleteGroup
DeleteGroup(groupId) ==
    \E readOk \in BOOLEAN :
        LET data == ReadGroupsData(readOk)
            kept == SelectSeq(data, LAMBDA g : g.id # groupId)
        IN  IF Len(kept) # Len(data)
            THEN WriteAndReturn("deleteGroup", groupId, "", kept, TRUE)
            ELSE ReturnWithoutWrite("deleteGroup", groupId, "", "false")

\* every group but the one at groupIndex losing repoName (lines 123-127;
\* groupIndex = 0 for lines 163-165, where every group loses it)
RemoveFromOthers(data, groupIndex, repoName) ==
    [k \in 1 .. Len(data) |->
        IF k # groupIndex
        THEN [data[k] EXCEPT !.repoNames = Without(@, repoName)]
        ELSE data[k]]

\* addRepoToGroup that leaves the other groups as they are
AddRepoToGroup_KeepsOthers(groupId, repoName) ==
    \E readOk \in BOOLEAN :
        LET data == ReadGroupsData(readOk)
            groupIndex == FindIndex(data, groupId)
            added == IF Includes(data[groupIndex].repoNames, repoName)
                     THEN data
                     ELSE [data EXCEPT
                                ![groupIndex].repoNames = Append(@, repoName)]
        IN  IF groupIndex = 0
            THEN ReturnWithoutWrite("addRepoToGroup", groupId, repoName, "null")
            ELSE WriteAndReturn("addRepoToGroup", groupId, repoName, added,
                                added[groupIndex])

\* addRepoToGroup
AddRepoToGroup(groupId, repoName) ==
    \E readOk \in BOOLEAN :
        LET data == ReadGroupsData(readOk)
            groupIndex == FindIndex(data, groupId)
            others == RemoveFromOthers(data, groupIndex, repoName)
            added == IF Includes(others[groupIndex].repoNames, repoName)
                     THEN others
                     ELSE [others EXCEPT
                                ![groupIndex].repoNames = Append(@, repoName)]
        IN  IF groupIndex = 0
            THEN ReturnWithoutWrite("addRepoToGroup", groupId, repoName, "null")
            ELSE WriteAndReturn("addRepoToGroup", groupId, repoName, added,
                                added[groupIndex])

\* removeRepoFromGroup
RemoveRepoFromGroup(groupId, repoName) ==
    \E readOk \in BOOLEAN :
        LET data == ReadGroupsData(readOk)
            groupIndex == FindIndex(data, groupId)
            removed == [data EXCEPT
                            ![groupIndex].repoNames = Without(@, repoName)]
        IN  IF groupIndex = 0
            THEN ReturnWithoutWrite("removeRepoFromGroup", groupId, repoName,
                                    "null")
            ELSE WriteAndReturn("removeRepoFromGroup", groupId, repoName,
                                removed, removed[groupIndex])

\* moveRepoToGroup writing the file as soon as the repository is removed
MoveRepoToGroup_WritesFirst(repoName, targetGroupId) ==
    \E readOk \in BOOLEAN :
        LET data == ReadGroupsData(readOk)
            removed == RemoveFromOthers(data, 0, repoName)
            groupIndex == FindIndex(removed, targetGroupId)
            moved == [removed EXCEPT
                            ![groupIndex].repoNames = Append(@, repoName)]
        IN  IF groupIndex = 0
            THEN /\ groupsFile' = removed
                 /\ last' = GroupOp("moveRepoToGroup", targetGroupId, repoName,
                                    "null", <<>>)
                 /\ UNCHANGED <<supervisor, outputListeners, install>>
            ELSE WriteAndReturn("moveRepoToGroup", targetGroupId, repoName,
                                moved, moved[groupIndex])

\* moveRepoToGroup: the removal is made on the data read, and reaches the file
\* only with the write of line 176
MoveRepoToGroup(repoName, targetGroupId) ==
    \E readOk \in BOOLEAN :
        LET data == ReadGroupsData(readOk)
            removed == RemoveFromOthers(data, 0, repoName)
            groupIndex == FindIndex(removed, targetGroupId)
            moved == [removed EXCEPT
                            ![groupIndex].repoNames = Append(@, repoName)]
        IN  IF groupIndex = 0
            THEN ReturnWithoutWrite("moveRepoToGroup", targetGroupId, repoName,
                                    "null")
            ELSE WriteAndReturn("moveRepoToGroup", targetGroupId, repoName,
                                moved, moved[groupIndex])

\* the calls of the groups store, one at a time: no method awaits anything
NextGroups ==
    \/ \E name \in GroupNames : CreateGroup(name)
    \/ \E groupId \in GroupIds, name \in GroupNames : UpdateGroup(groupId, name)
    \/ \E groupId \in GroupIds : DeleteGroup(groupId)
    \/ \E groupId \in GroupIds, repoName \in RepoNames :
            AddRepoToGroup(groupId, repoName)
    \/ \E groupId \in GroupIds, repoName \in RepoNames :
            RemoveRepoFromGroup(groupId, repoName)
    \/ \E groupId \in GroupIds, repoName \in RepoNames :
            MoveRepoToGroup(repoName, groupId)

SpecGroups == Init /\ [][NextGroups]_vars

----------------------------------------------------------------------------
(* installProject of src/src/main/project-installer.ts, called by the        *)
(* 'project:install' handler of src/src/main/ipc-handlers.ts                 *)

\* one progress event; the message is left out
Progress(stage, progress) == [stage |-> stage, progress |-> progress]

\* the callback the handler passes is _event.sender.send(...): it throws once
\* the window it sends to is destroyed
CallbackThrows == install.sender = "destroyed"

\* lines 376-384: the catch block calls onProgress with 'error' and returns
\* success: false with the message of what it caught; when that call throws,
\* the promise of installProject rejects with what the callback threw
Caught(events, error) ==
    [install EXCEPT !.pc = "done",
                    !.events = events \o <<Progress("error", 0)>>,
                    !.result = IF CallbackThrows THEN "rejected" ELSE "failure",
                    !.error = IF CallbackThrows THEN "callback" ELSE error,
                    !.threw = @ \/ CallbackThrows]

\* onProgress called inside the try block with each event of evs in turn, then
\* the call going on as `then`; a call of onProgress that throws goes to the
\* catch block
Try(events, evs, then) ==
    IF CallbackThrows /\ evs # <<>>
    THEN Caught(events \o <<Head(evs)>>, "callback")
    ELSE [then EXCEPT !.events = events \o evs]

\* lines 306-314: the first event, and cloneRepository up to its first await
InstallProject ==
    /\ install.pc = "idle"
    /\ install' = Try(install.events, <<Progress("cloning", 10)>>,
                      [install EXCEPT !.pc = "access"])
    /\ UNCHANGED <<supervisor, last, outputListeners, groupsFile>>

\* cloneRepository, lines 73-76 of src/unnamed/part_001: the message 'Cloning
\* repository to ...', then git.clone
FreshClone(events) ==
    Try(events, <<Progress("cloning", 20)>>, [install EXCEPT !.pc = "clone"])

\* cloneRepository, lines 58-71: ensureBaseDir and fs.access. A project path
\* that exists is pulled; what the inner try throws, the message callback's
\* exception included, is swallowed and the clone goes on
CloneAccess(outcome) ==
    /\ install.pc = "access"
    /\ install' =
            CASE outcome = "mkdirFails" -> Caught(install.events, "mkdir")
              [] outcome = "absent" -> FreshClone(install.events)
              [] outcome = "exists" ->
                    IF CallbackThrows
                    THEN FreshClone(install.events \o <<Progress("cloning", 20)>>)
                    ELSE [install EXCEPT
                            !.pc = "pull",
                            !.events = @ \o <<Progress("cloning", 20)>>]
    /\ UNCHANGED <<supervisor, last, outputListeners, groupsFile>>

\* lines 322-333: cloneRepository has returned
AfterClone(events, evs) ==
    Try(events,
        evs \o <<Progress("cloning", 40), Progress("detecting", 45)>>,
        [install EXCEPT !.pc = "detect"])

\* git.pull() ends: a pull that fails is swallowed by the inner catch
GitPull(ok) ==
    /\ install.pc = "pull"
    /\ install' = IF ok
                  THEN AfterClone(install.events, <<>>)
                  ELSE FreshClone(install.events)
    /\ UNCHANGED <<supervisor, last, outputListeners, groupsFile>>

\* git.clone() ends: 'Clone completed successfully', or the error rethrown
GitClone(ok) ==
    /\ install.pc = "clone"
    /\ install' = IF ok
                  THEN AfterClone(install.events, <<Progress("cloning", 20)>>)
                  ELSE Caught(install.events, "clone")
    /\ UNCHANGED <<supervisor, last, outputListeners, groupsFile>>

\* what detectProjectConfig ends in: a config with installCommand '', one with
\* a command, or an exception (JSON.parse of package.json)
DetectOutcomes == {"none", "command", "throws"}

\* detection that goes on to install whatever the config holds
Detect_InstallsAnyway(outcome) ==
    /\ install.pc = "detect"
    /\ install' =
            IF outcome = "throws"
            THEN Caught(install.events, "detect")
            ELSE Try(install.events,
                     <<Progress("detecting", 50), Progress("installing", 55)>>,
                     [install EXCEPT !.pc = "command", !.config = outcome,
                                     !.ran = TRUE])
    /\ UNCHANGED <<supervisor, last, outputListeners, groupsFile>>

\* lines 337-367: detectProjectConfig has ended; with no install command the
\* call ends in 'complete', else runCommand spawns the shell
Detect(outcome) ==
    /\ install.pc = "detect"
    /\ install' =
            CASE outcome = "throws" -> Caught(install.events, "detect")
              [] outcome = "none" ->
                    Try(install.events,
                        <<Progress("detecting", 50), Progress("complete", 100)>>,
                        [install EXCEPT !.pc = "done", !.config = "none",
                                        !.result = "success"])
              [] outcome = "command" ->
                    Try(install.events,
                        <<Progress("detecting", 50), Progress("installing", 55)>>,
                        [install EXCEPT !.pc = "command", !.config = "command",
                                        !.ran = TRUE])
    /\ UNCHANGED <<supervisor, last, outputListeners, groupsFile>>

\* lines 401-407: a chunk on the shell's stdout or stderr. The handler calls
\* onProgress outside the try block of installProject: what it throws does
\* not reach the call
CommandOutput ==
    /\ install.pc = "command"
    /\ install.outputs < MaxInstallOutput
    /\ install' = [install EXCEPT
                        !.events = @ \o <<Progress("installing", 70)>>,
                        !.outputs = @ + 1,
                        !.threw = @ \/ CallbackThrows]
    /\ UNCHANGED <<supervisor, last, outputListeners, groupsFile>>

\* lines 409-415 and 369-375: 'close' with code 0 resolves, any other code
\* rejects
CommandClose(code) ==
    /\ install.pc = "command"
    /\ install' = IF code = 0
                  THEN Try(install.events, <<Progress("complete", 100)>>,
                           [install EXCEPT !.pc = "done", !.result = "success"])
                  ELSE Caught(install.events, "exit code")
    /\ UNCHANGED <<supervisor, last, outputListeners, groupsFile>>

\* lines 417-419: the shell could not be spawned; no output came before
CommandError ==
    /\ install.pc = "command"
    /\ install.outputs = 0
    /\ install' = Caught(install.events, "spawn")
    /\ UNCHANGED <<supervisor, last, outputListeners, groupsFile>>

\* the window that asked for the install is closed
WindowClosed ==
    /\ install.pc # "done"
    /\ install.sender = "open"
    /\ install' = [install EXCEPT !.sender = "destroyed"]
    /\ UNCHANGED <<supervisor, last, outputListeners, groupsFile>>

\* one 'project:install' request
NextInstall ==
    \/ InstallProject
    \/ \E outcome \in {"mkdirFails", "absent", "exists"} : CloneAccess(outcome)
    \/ \E ok \in BOOLEAN : GitPull(ok)
    \/ \E ok \in BOOLEAN : GitClone(ok)
    \/ \E outcome \in DetectOutcomes : Detect(outcome)
    \/ CommandOutput
    \/ \E code \in {0, 1} : CommandClose(code)
    \/ CommandError
    \/ WindowClosed

SpecInstall == Init /\ [][NextInstall]_vars

----------------------------------------------------------------------------
(* Port allocation: C1, C2, C3 *)

\* the ports one search covers
Candidates(startPort) == startPort .. (startPort + MaxTries)

\* the ports of a search whose probe does not report 'address in use'
NotInUse(startPort) ==
    { p \in Candidates(startPort) : BindOutcome(p) # "EADDRINUSE" }

Smallest(ports) == CHOOSE p \in ports : \A q \in ports : p <= q

\* the calls whose findAvailablePort has returned
Allocated == { id \in DOMAIN calls : calls[id].allocatedPort >= 0 }

\* C1: the port findAvailablePort returns lies in requestedPort..requestedPort+100
\* and, when some probe in that range does not report 'address in use', is the
\* smallest such port: requestedPort when it is free, requestedPort+1 when
\* requestedPort is in use and requestedPort+1 is free.
C1_SmallestFreePort ==
    \A id \in Allocated :
        LET c == calls[id] IN
        /\ c.allocatedPort \in Candidates(c.port)
        /\ NotInUse(c.port) # {} => c.allocatedPort = Smallest(NotInUse(c.port))
        /\ BindOutcome(c.port) = "listening" => c.allocatedPort = c.port
        /\ (BindOutcome(c.port) = "EADDRINUSE" /\ BindOutcome(c.port + 1) = "listening")
               => c.allocatedPort = c.port + 1

\* C1 witnesses: an allocation that skipped in-use ports and took a later free one
C1_Witness ==
    \E id \in Allocated :
        /\ calls[id].allocatedPort = calls[id].port + MaxTries
        /\ BindOutcome(calls[id].allocatedPort) = "listening"
        /\ calls[id].pc = "resolved"

\* every candidate of the search reports 'address in use'
AllInUse(startPort) ==
    \A p \in Candidates(startPort) : BindOutcome(p) = "EADDRINUSE"

\* C2: when every port from requestedPort through requestedPort+100 reports
\* 'address in use', the call does not stop at the probes: it allocates
\* requestedPort, goes on to spawn, and a successful start registers the process
\* and returns it with port = requestedPort.
C2_FallbackToRequestedPort ==
    \A id \in DOMAIN calls :
        LET c == calls[id] IN
        (AllInUse(c.port) /\ c.pc # "probing") =>
            /\ c.allocatedPort = c.port
            /\ c.pc = "resolved" =>
                  /\ processData[id].port = c.port
                  /\ c.returned[1].port = c.port
                  /\ (last.op = "startProcess" /\ last.id = id) => Registered(id)

C2_Witness ==
    \E id \in DOMAIN calls :
        /\ AllInUse(calls[id].port)
        /\ calls[id].pc = "resolved"
        /\ Registered(id)
        /\ processData[id].port = calls[id].port
        /\ calls[id].i = MaxTries

\* the ports whose probe a call has seen complete
Probed(c) ==
    IF c.pc = "probing" THEN c.port .. (c.port + c.i - 1)
    ELSE IF c.allocatedPort < 0 THEN c.port .. (c.port + c.i - 1)
    ELSE c.port .. (c.port + c.i)

\* C3: a probe that ends in an 'error' event other than EADDRINUSE ends the search
\* with the probed port allocated, whether it is requestedPort or a later
\* candidate, and the call goes on to spawn: it is not rejected by that probe.
C3_OtherProbeErrorMeansAvailable ==
    \A id \in DOMAIN calls :
        LET c == calls[id] IN
        \A p \in Probed(c) :
            BindOutcome(p) = "EACCES" =>
                /\ c.pc # "probing"
                /\ c.allocatedPort = p
                /\ c.thrown # "listen"
                /\ c.pc = "resolved" => processData[id].port = p

\* C3 witness: a later candidate's probe failed with another error, and the
\* process was started on that candidate
C3_Witness ==
    \E id \in DOMAIN calls :
        /\ calls[id].pc = "resolved"
        /\ calls[id].allocatedPort > calls[id].port
        /\ BindOutcome(calls[id].allocatedPort) = "EACCES"
        /\ Registered(id)

----------------------------------------------------------------------------
(* The command: C4 *)

IsDigit(ch) == \E d \in 1 .. Len(Digits) : Digits[d] = ch

DigitValue(ch) == (CHOOSE d \in 1 .. Len(Digits) : Digits[d] = ch) - 1

\* the number a run of decimal digits denotes
RECURSIVE ParseDecimal(_)
ParseDecimal(ds) ==
    IF ds = <<>> THEN 0
    ELSE 10 * ParseDecimal(SubSeq(ds, 1, Len(ds) - 1)) + DigitValue(ds[Len(ds)])

\* the length of the longest run of digits s starts with
RECURSIVE DigitPrefix(_)
DigitPrefix(s) ==
    IF s = <<>> \/ ~IsDigit(Head(s)) THEN 0 ELSE 1 + DigitPrefix(Tail(s))

\* s with every maximal run of digits that denotes `port` turned back into $PORT
RECURSIVE Restore(_, _)
Restore(s, port) ==
    IF s = <<>> THEN <<>>
    ELSE IF IsDigit(Head(s))
         THEN LET n == DigitPrefix(s)
                  run == SubSeq(s, 1, n)
              IN  (IF ParseDecimal(run) = port THEN PortPlaceholder ELSE run)
                      \o Restore(SubSeq(s, n + 1, Len(s)), port)
         ELSE <<Head(s)>> \o Restore(Tail(s), port)

\* the places at which `what` occurs in s
Occurrences(s, what) ==
    { k \in 1 .. Len(s) :
        k + Len(what) - 1 <= Len(s) /\ SubSeq(s, k, k + Len(what) - 1) = what }

\* C4: the command of an entry, which is also the command line handed to spawn,
\* is the template of the call with each $PORT (none, one or several) replaced by
\* the decimal digits of the allocated port and nothing else changed; that port is
\* the entry's port. (No template holds a digit, so turning the digits back into
\* $PORT must give the template, and no $PORT may be left.)
C4_CommandCarriesAllocatedPort ==
    \A id \in DOMAIN processData :
        LET d == processData[id]
            c == calls[id]
        IN  /\ Occurrences(d.command, PortPlaceholder) = {}
            /\ Restore(d.command, d.port) = c.command
            /\ Len(d.command) = Len(c.command)
                  + Cardinality(Occurrences(c.command, PortPlaceholder))
                      * (Len(PortToString(d.port)) - Len(PortPlaceholder))
            /\ child[id].spawnargs = d.command
            /\ d.port = c.allocatedPort
            /\ c.returned[1].command = d.command

\* C4 witness: a template with two placeholders started on a port other than the
\* requested one
C4_Witness ==
    \E id \in DOMAIN processData :
        /\ Cardinality(Occurrences(calls[id].command, PortPlaceholder)) = 2
        /\ processData[id].port # calls[id].port
        /\ Registered(id)

----------------------------------------------------------------------------
(* Registration: C5 *)

\* the ids getAllProcesses returns, in order
AllIds(snaps) == [k \in 1 .. Len(snaps) |-> snaps[k].id]

\* the step in which the call that drew `id` returns a process
StartReturns(id) ==
    /\ id \in DOMAIN calls
    /\ calls[id].pc = "probing"
    /\ calls'[id].pc = "resolved"

\* C5: the step in which start succeeds adds one entry to the registry, under an
\* id no entry or object had before, with status running and the allocated port;
\* the entries registered before are the same, in the same order; and the
\* snapshot start returns carries that id, that port and status running.
C5_StartRegistersOneEntry ==
    [][\A id \in ProcessIds :
          StartReturns(id) =>
            LET snap == calls'[id].returned[1] IN
            /\ ~Registered(id)
            /\ id \notin DOMAIN processData
            /\ processes' = Append(processes, id)
            /\ GetAllProcessesResult' =
                  Append(GetAllProcessesResult, Snapshot(processData'[id]))
            /\ \A other \in DOMAIN processData :
                  processData'[other] = processData[other]
            /\ processData'[id].status = "running"
            /\ processData'[id].port = Smallest(NotInUse(calls[id].port))
            /\ processData'[id].port = calls'[id].allocatedPort
            /\ snap.id = id
            /\ snap.port = processData'[id].port
            /\ snap.status = "running"
            /\ last'.snaps = <<snap>>
      ]_vars

\* C5 witness: a start has just returned a second entry, next to one that is no
\* longer running
C5_Witness ==
    /\ last.op = "startProcess"
    /\ last.ret
    /\ Len(processes) = 2
    /\ processes[2] = last.id
    /\ processData[processes[1]].status = "stopped"
    /\ processData[processes[2]].status = "running"

----------------------------------------------------------------------------
(* Exit: C6, C7 *)

\* the step in which the exit handler of a registered child runs with `code`
ExitsWith(id, code) ==
    /\ id \in DOMAIN child
    /\ Registered(id)
    /\ child[id].state = "alive"
    /\ child'[id].state = "exited"
    /\ Len(last'.emits) = 1
    /\ last'.emits[1].event = "processExit"
    /\ last'.emits[1].id = id
    /\ last'.emits[1].code = <<code>>

\* after the step the id is in nothing the reads return, and only it was removed
RemovedByStep(id) ==
    /\ ~Registered(id)'
    /\ processes' = MapDelete(processes, id)
    /\ GetProcessResult(id)' = <<>>
    /\ \A k \in 1 .. Len(GetAllProcessesResult') : GetAllProcessesResult'[k].id # id

\* a child that has exited is never in the registry again
ExitedStayRemoved ==
    \A id \in DOMAIN child :
        child[id].state = "exited" =>
            /\ ~Registered(id)
            /\ GetProcessResult(id) = <<>>
            /\ \A k \in 1 .. Len(GetAllProcessesResult) : GetAllProcessesResult[k].id # id

\* C6: when a registered child exits with code 0 its status becomes stopped and,
\* in the same step, its entry leaves the registry; from then on getProcess(id)
\* returns null and getAllProcesses() does not hold it.
C6_ExitZeroStopsAndRemoves ==
    /\ []ExitedStayRemoved
    /\ [][\A id \in ProcessIds :
             ExitsWith(id, 0) =>
                /\ processData'[id].status = "stopped"
                /\ RemovedByStep(id)
         ]_vars

\* C6 witness: a child that was running has just exited with code 0
C6_Witness ==
    /\ last.op = "exit"
    /\ last.emits[1].code = <<0>>
    /\ processData[last.id].status = "stopped"
    /\ ~Registered(last.id)
    /\ Len(processes) = 1

\* C7: when a registered child exits with a code other than 0 its status becomes
\* error and, in the same step, its entry leaves the registry; from then on
\* getProcess(id) returns null and getAllProcesses() does not hold it.
C7_ExitNonzeroErrorsAndRemoves ==
    /\ [](\A id \in DOMAIN child :
             (child[id].state = "exited" /\ processData[id].status = "error")
                => GetProcessResult(id) = <<>>)
    /\ [][\A id \in ProcessIds : \A code \in ExitCodes \ {0} :
             ExitsWith(id, code) =>
                /\ processData'[id].status = "error"
                /\ RemovedByStep(id)
         ]_vars

\* C7 witness: a child that was running has just exited with code 1
C7_Witness ==
    /\ last.op = "exit"
    /\ last.emits[1].code = <<1>>
    /\ processData[last.id].status = "error"
    /\ ~Registered(last.id)
    /\ Len(processes) = 1

----------------------------------------------------------------------------
(* stopProcess: C8, C9 *)

\* the step is a call of stopProcess(id)
StopCalled(id) == last'.op = "stopProcess" /\ last'.id = id

\* what stopProcess(id) does for a registered id: it signals the child, returns
\* true, sets status stopped and leaves the registry as it is
StopOfRegistered ==
    \A id \in ProcessIds :
        (StopCalled(id) /\ Registered(id)) =>
            /\ last'.ret
            /\ last'.kills = {id}
            /\ processData'[id].status = "stopped"
            /\ processes' = processes
            /\ GetProcessResult(id)' = <<Snapshot(processData'[id])>>
            /\ GetProcessResult(id)'[1].status = "stopped"

\* the step in which the exit handler of the child of `id` runs
ExitStep(id) == child[id].state = "alive" /\ child'[id].state = "exited"

\* the step in which the error handler of the child of `id` runs on its own
ErrorStep(id) == last'.op = "error" /\ last'.id = id

\* a registered entry has status stopped only through stopProcess
StoppedWindow(id) == Registered(id) /\ processData[id].status = "stopped"

\* C8 as claimed: stopProcess(id) on a registered process signals it, returns
\* true and sets status stopped without removing the entry, and in every state
\* from then to the exit event of its (launched) child getProcess(id) returns the
\* entry with status stopped.
C8_StoppedUntilExit ==
    [][/\ StopOfRegistered
       /\ \A id \in ProcessIds :
             (StoppedWindow(id) /\ child[id].state = "alive" /\ ~ExitStep(id))
             => StoppedWindow(id)'
      ]_vars

\* C8 as amended: the same, with getProcess(id) returning the entry up to the
\* child's exit event or a call of stopAllProcesses, whichever comes first, and
\* its status staying stopped up to then (or, for a child whose launch failed,
\* up to the error event of that child).
C8_StoppedUntilExitStopAllOrError ==
    [][/\ StopOfRegistered
       /\ \A id \in ProcessIds :
             (StoppedWindow(id) /\ ~ExitStep(id)
                /\ last'.op # "stopAllProcesses")
             => /\ Registered(id)'
                /\ ~ErrorStep(id) => processData'[id].status = "stopped"
      ]_vars

\* C8 witness: an entry stopped by stopProcess is still registered, with status
\* stopped, while its child goes on writing
C8_Witness ==
    /\ last.op \in {"stdout", "stderr"}
    /\ Registered(last.id)
    /\ processData[last.id].status = "stopped"
    /\ child[last.id].state = "alive"

\* C9: stopProcess(id) for an id that is not in the registry returns false,
\* signals nothing, emits nothing and changes neither the registry nor any
\* processData object.
C9_StopUnknownIsNoOp ==
    [][\A id \in ProcessIds :
          (StopCalled(id) /\ ~Registered(id)) =>
            /\ ~last'.ret
            /\ last'.kills = {}
            /\ last'.emits = <<>>
            /\ UNCHANGED <<processes, processData, child>>
      ]_vars

\* C9 witness: stopProcess has just returned false for a process that
\* stopAllProcesses cleared while its child was running, next to an entry
\* registered since
C9_Witness ==
    /\ last.op = "stopProcess"
    /\ ~last.ret
    /\ last.id \in DOMAIN child
    /\ child[last.id].state = "alive"
    /\ ~Registered(last.id)
    /\ \E other \in Range(processes) : processData[other].status = "running"

----------------------------------------------------------------------------
(* stopAllProcesses: C10 *)

\* C10: stopAllProcesses signals every registered process, sets the status of
\* each to stopped and leaves the registry empty, whatever the number of
\* entries and whether or not a kill fails.
C10_StopAllEmptiesRegistry ==
    [][last'.op = "stopAllProcesses" =>
          /\ processes' = <<>>
          /\ GetAllProcessesResult' = <<>>
          /\ last'.kills = Range(processes)
          /\ \A id \in Range(processes) : processData'[id].status = "stopped"
          /\ \A id \in ProcessIds : GetProcessResult(id)' = <<>>
      ]_vars

\* C10 witness: stopAllProcesses has just cleared two entries, the kill of one
\* of them having failed with an 'error' event
C10_Witness ==
    /\ last.op = "stopAllProcesses"
    /\ Cardinality(last.kills) = 2
    /\ Len(last.emits) = 1
    /\ processes = <<>>
    /\ \A id \in last.kills : processData[id].status = "stopped"

----------------------------------------------------------------------------
(* The output log: C11, C12 *)

Streams == {"stdout", "stderr"}

\* the tag the log entries of a stream are to carry
TagOf(stream) == IF stream = "stdout" THEN StdoutTag ELSE StderrTag

IsPrefix(a, b) == Len(a) <= Len(b) /\ SubSeq(b, 1, Len(a)) = a

\* the step handles a chunk of `stream` of the child of `id`
Receives(id, stream) == last'.op = stream /\ last'.id = id

\* every entry of every log is a tag followed by a chunk
LogEntriesTagged ==
    \A id \in DOMAIN processData :
        \A k \in 1 .. Len(processData[id].output) :
            \E stream \in Streams, chunk \in OutputChunks :
                processData[id].output[k] = TagOf(stream) \o chunk

\* C11: the output log of a process only grows, at its end: a chunk received on
\* stdout or stderr adds one entry after the entries there, the chunk behind the
\* tag of its stream, and no other step changes a log; so the log of any state
\* is a prefix of the log of every later state, and the entries of the two
\* streams stand in the order in which the chunks were received.
C11_OutputLogAppendOnly ==
    /\ []LogEntriesTagged
    /\ [][/\ \A id \in DOMAIN processData :
               IsPrefix(processData[id].output, processData'[id].output)
          /\ \A id \in ProcessIds : \A stream \in Streams :
               Receives(id, stream) =>
                   /\ \E chunk \in OutputChunks :
                         processData'[id].output =
                             Append(processData[id].output, TagOf(stream) \o chunk)
                   /\ \A other \in DOMAIN processData \ {id} :
                         processData'[other].output = processData[other].output
          /\ last'.op \notin Streams =>
               \A id \in DOMAIN processData :
                   processData'[id].output = processData[id].output
         ]_vars

\* C11 witness: a log of three entries, stdout, stderr, stdout, the last of them
\* received after the exit event
C11_Witness ==
    /\ last.op = "stdout"
    /\ child[last.id].state = "exited"
    /\ processData[last.id].output =
          << StdoutTag \o <<"o", "k">>, StderrTag \o <<"n", "o">>,
             StdoutTag \o <<"n", "o">> >>

\* the texts of the 'output' notifications for `id` among `emits`, in order
OutputTexts(emits, id) ==
    LET mine == SelectSeq(emits, LAMBDA n : n.event = "output" /\ n.id = id)
    IN  [k \in 1 .. Len(mine) |-> mine[k].text]

\* the log of `id` in a registry of processData objects, empty before there is one
LogOf(objects, id) == IF id \in DOMAIN objects THEN objects[id].output ELSE <<>>

\* C12: in every step the log of each process grows by exactly the texts of the
\* 'output' notifications the step emits for that process id, in their order;
\* a received chunk makes one such notification, for the process it came from
\* and no other. So the notifications for an id, in order, are its output log.
C12_OutputNotificationsAreTheLog ==
    [][/\ \A id \in ProcessIds :
            LogOf(processData', id) =
                LogOf(processData, id) \o OutputTexts(last'.emits, id)
       /\ \A id \in ProcessIds : \A stream \in Streams :
            Receives(id, stream) =>
                /\ Len(last'.emits) = 1
                /\ last'.emits[1].event = "output"
                /\ last'.emits[1].id = id
                /\ IsPrefix(TagOf(stream), last'.emits[1].text)
      ]_vars

\* C12 witness: the third notification of a child, for a stderr chunk that
\* follows two stdout chunks, while the child runs
C12_Witness ==
    /\ last.op = "stderr"
    /\ child[last.id].state = "alive"
    /\ Len(processData[last.id].output) = 3
    /\ last.emits[1].text = processData[last.id].output[3]
    /\ IsPrefix(StdoutTag, processData[last.id].output[1])
    /\ IsPrefix(StdoutTag, processData[last.id].output[2])

----------------------------------------------------------------------------
(* A throwing spawn: C13 *)

\* the step in which spawn throws inside the call that drew `id`
SpawnThrows(id) ==
    /\ id \in DOMAIN calls
    /\ calls[id].pc = "probing"
    /\ calls'[id].thrown = "spawn"

\* a call that was rejected has no entry and no processData object
RejectedNeverRegistered ==
    \A id \in DOMAIN calls :
        calls[id].pc = "rejected" => (~Registered(id) /\ id \notin DOMAIN processData)

\* C13: when spawn throws inside startProcess the call is rejected with what
\* spawn threw and returns no process; the step adds no entry, emits nothing
\* (no processStarted) and leaves the registry, every entry in it and every
\* child as they were; the id of the call is never registered.
C13_SpawnThrowRegistersNothing ==
    /\ []RejectedNeverRegistered
    /\ [][\A id \in ProcessIds :
             SpawnThrows(id) =>
                /\ calls'[id].pc = "rejected"
                /\ calls'[id].returned = <<>>
                /\ ~last'.ret
                /\ last'.snaps = <<>>
                /\ last'.emits = <<>>
                /\ UNCHANGED <<processes, processData, child>>
                /\ GetAllProcessesResult' = GetAllProcessesResult
                /\ GetProcessResult(id)' = <<>>
         ]_vars

\* C13 witness: spawn has just thrown in a second call, while the process of
\* the first is registered and running
C13_Witness ==
    /\ last.op = "startProcess"
    /\ last.id \in DOMAIN calls
    /\ calls[last.id].thrown = "spawn"
    /\ Len(processes) = 1
    /\ processes[1] # last.id
    /\ processData[processes[1]].status = "running"

----------------------------------------------------------------------------
(* The status: C14 *)

Terminal == {"stopped", "error"}

\* C14: a process whose status is stopped or error never has status running
\* again; a step gives status running only to the object startProcess creates
\* in the step in which it registers it, and that object has an id no object
\* had before.
C14_NeverRunningAgain ==
    [][\A id \in ProcessIds :
          /\ (id \in DOMAIN processData /\ processData[id].status \in Terminal)
                => processData'[id].status # "running"
          /\ (id \in DOMAIN processData' /\ processData'[id].status = "running")
                => \/ id \in DOMAIN processData /\ processData[id].status = "running"
                   \/ /\ StartReturns(id)
                      /\ id \notin DOMAIN processData
                      /\ ~Registered(id)
                      /\ Registered(id)'
      ]_vars

\* C14 witness: after the process of the first call ended in error, a second
\* call has just registered a running process under another id
C14_Witness ==
    /\ last.op = "startProcess"
    /\ last.ret
    /\ processes = <<last.id>>
    /\ processData[last.id].status = "running"
    /\ \E old \in DOMAIN processData :
          /\ old < last.id
          /\ processData[old].status = "error"
          /\ child[old].state = "exited"

----------------------------------------------------------------------------
(* Terminal statuses: C15 *)

\* C15: stopped and error are final: in no step does a status that is stopped
\* or error become another value, whether the step is an exit event, an error
\* event, a stopProcess call or a stopAllProcesses call.
C15_TerminalStatusIsFinal ==
    [][\A id \in DOMAIN processData :
          processData[id].status \in Terminal
              => processData'[id].status = processData[id].status
      ]_vars

----------------------------------------------------------------------------
(* Process ids: C16 *)

\* the step is the call of startProcess that draws `id`
StartCalled(id) ==
    /\ last'.op = "startProcess"
    /\ last'.id = id
    /\ id \in DOMAIN calls'
    /\ calls'[id].pc = "probing"

\* the ids issued so far are below the counter, their strings differ from one
\* another, and an object or entry carries the id its call drew
IdsDistinct ==
    /\ \A id \in DOMAIN calls \cup DOMAIN processData \cup Range(processes) :
          id < nextProcessId
    /\ \A a, b \in DOMAIN calls :
          a # b => ProcessIdText(a) # ProcessIdText(b)
    /\ \A id \in DOMAIN processData :
          processData[id].id = id /\ id \in DOMAIN calls
    /\ \A j, k \in 1 .. Len(processes) : j # k => processes[j] # processes[k]

\* C16: every call of startProcess draws an id no call drew before, larger than
\* every id drawn before, whether or not the earlier calls failed and whether
\* or not their processes were removed; the counter never goes back; so no two
\* processes ever share an id and no id is used again.
C16_IdsUniqueAndMonotonic ==
    /\ []IdsDistinct
    /\ [][/\ nextProcessId' >= nextProcessId
          /\ \A id \in ProcessIds :
               StartCalled(id) =>
                  /\ id = nextProcessId
                  /\ nextProcessId' = id + 1
                  /\ id \notin DOMAIN calls
                  /\ id \notin DOMAIN processData
                  /\ \A earlier \in DOMAIN calls : earlier < id
         ]_vars

\* C16 witness: a call has just drawn an id after the call before it was
\* rejected, its id used up
C16_Witness ==
    /\ last.op = "startProcess"
    /\ calls[last.id].pc = "probing"
    /\ calls[last.id].i = 0
    /\ \E earlier \in DOMAIN calls :
          /\ earlier < last.id
          /\ calls[earlier].pc = "rejected"
          /\ earlier \notin DOMAIN processData

----------------------------------------------------------------------------
(* Snapshots: C17 *)

\* what the holder of a snapshot reads from it when the processData objects are
\* `objects`: the copied fields, and behind `output` the array it refers to
View(snap, objects) == [snap EXCEPT !.output = objects[snap.output].output]

\* C17: getProcess(id) returns null for an id that is not registered, and the
\* snapshot it returns for a registered id reads the same after every later
\* step as when it was returned, its output log included.
C17_SnapshotsImmutable ==
    /\ [](\A id \in ProcessIds : ~Registered(id) => GetProcessResult(id) = <<>>)
    /\ [][\A id \in ProcessIds :
             Registered(id) =>
                LET snap == GetProcessResult(id)[1]
                IN  View(snap, processData') = View(snap, processData)
         ]_vars

----------------------------------------------------------------------------
(* getAllProcesses: C18 *)

\* the ids of `ids` that are also in `others`, in the order of `ids`
Common(ids, others) == SelectSeq(ids, LAMBDA id : id \in Range(others))

\* getAllProcesses returns the snapshot of each entry of the registry, once, in
\* the order of the registry, and nothing else
AllIsTheRegistry ==
    /\ AllIds(GetAllProcessesResult) = processes
    /\ \A k \in 1 .. Len(GetAllProcessesResult) :
          /\ Registered(GetAllProcessesResult[k].id)
          /\ GetAllProcessesResult[k] = GetProcessResult(GetAllProcessesResult[k].id)[1]
    /\ \A j, k \in 1 .. Len(GetAllProcessesResult) :
          j # k => GetAllProcessesResult[j].id # GetAllProcessesResult[k].id

\* C18: getAllProcesses returns one snapshot for each registered process and
\* nothing else, in the order of registration: a process that is registered
\* goes after all that are registered, and no step changes the order of the
\* processes that stay registered.
C18_GetAllInInsertionOrder ==
    /\ []AllIsTheRegistry
    /\ [][processes' # processes =>
            LET before == AllIds(GetAllProcessesResult)
                after == AllIds(GetAllProcessesResult')
            IN  /\ Common(before, after) = Common(after, before)
                /\ \A id \in ProcessIds :
                      (~Registered(id) /\ Registered(id)') =>
                          after = Append(before, id)
         ]_vars

\* C18 witness: the second call registered first; getAllProcesses returns its
\* process before that of the first call, also after it was stopped
C18_Witness ==
    /\ AllIds(GetAllProcessesResult) = <<2, 1>>
    /\ GetAllProcessesResult[1].status = "stopped"
    /\ GetAllProcessesResult[2].status = "running"
    /\ last.op = "stopProcess"

----------------------------------------------------------------------------
(* The allocation race: C19 *)

\* the step in which a probe of the call that drew `id` completes
ProbeStep(id) ==
    /\ id \in DOMAIN calls
    /\ calls[id].pc = "probing"
    /\ calls'[id] # calls[id]

\* the registered processes with status running that were given `port`
RunningOn(port) ==
    { id \in Range(processes) :
        processData[id].status = "running" /\ processData[id].port = port }

\* C19: a probe decides by the state of the host's ports alone: a candidate that
\* can be bound is allocated, and a process started on it, also when a
\* registered running process was given that port and has not bound it yet;
\* a port is given to a second process only while no child has bound it. (The
\* state with two running processes on one port is the witness.)
C19_AllocationIgnoresRegistry ==
    [][\A id \in ProcessIds :
          ProbeStep(id) =>
            LET candidate == calls[id].port + calls[id].i IN
            /\ BindOutcome(candidate) = "listening" =>
                  /\ calls'[id].allocatedPort = candidate
                  /\ calls'[id].pc = "resolved" =>
                        /\ processData'[id].port = candidate
                        /\ processData'[id].status = "running"
                        /\ Registered(id)'
            /\ (calls'[id].pc = "resolved" /\ calls[id].i < MaxTries) =>
                  BindOutcome(processData'[id].port) = "listening"
      ]_vars

\* C19 witness: two registered processes with status running on one port, which
\* neither child has bound
C19_Witness ==
    \E a, b \in Range(processes) :
        /\ a # b
        /\ calls[a].port = calls[b].port
        /\ b \in RunningOn(processData[a].port)
        /\ a \in RunningOn(processData[a].port)
        /\ child[a].state = "alive"
        /\ child[b].state = "alive"
        /\ BindOutcome(processData[a].port) = "listening"

----------------------------------------------------------------------------
(* Removal after an error: C20 *)

\* the entry of `id` is registered with status error
RegisteredInError(id) ==
    /\ Registered(id)
    /\ processData[id].status = "error"

\* C20: an entry whose status has become error does not stay in the registry:
\* once a registered process has status error, a state follows in which
\* getAllProcesses no longer returns it, also when no exit event follows the
\* error event.
C20_ErrorEntriesAreRemoved ==
    \A id \in ProcessIds :
        RegisteredInError(id)
            ~> (\A k \in 1 .. Len(GetAllProcessesResult) :
                   GetAllProcessesResult[k].id # id)

----------------------------------------------------------------------------
(* The order of the notifications: C21 *)

\* the notifications of `events` for `id` that the step emits, in order
EmittedFor(id, events) ==
    SelectSeq(last'.emits, LAMBDA n : n.id = id /\ n.event \in events)

\* the step emits a notification of `events` for `id`
Emits(id, events) ==
    \E k \in 1 .. Len(last'.emits) :
        last'.emits[k].id = id /\ last'.emits[k].event \in events

\* what the order of the notifications of one id comes to, step by step:
\* processStarted is emitted by the step in which start returns the process and
\* by no other, once, with the entry registered and running at that moment;
\* output, processExit and processError are emitted for an id only in later
\* steps; processExit is emitted once, by the step in which the child exits,
\* which happens once, and after that step the entry is not registered
OrderOfNotifications(id) ==
    /\ StartReturns(id) =>
          /\ Len(last'.emits) = 1
          /\ Len(EmittedFor(id, {"processStarted"})) = 1
          /\ last'.emits[1].seen # <<>>
          /\ last'.emits[1].seen[1].id = id
          /\ last'.emits[1].seen[1].status = "running"
    /\ Emits(id, {"processStarted"}) => StartReturns(id)
    /\ Emits(id, {"output", "processExit", "processError"}) =>
          /\ id \in DOMAIN processData
          /\ calls[id].pc = "resolved"
    /\ Emits(id, {"processExit"}) =>
          /\ Len(EmittedFor(id, {"processExit"})) = 1
          /\ child[id].state = "alive"
          /\ child'[id].state = "exited"
          /\ ~Registered(id)'
    /\ (id \in DOMAIN child /\ child[id].state = "exited") =>
          child'[id].state = "exited"

\* the steps the order is about: those that emit, those in which start returns
\* a process and those in which a child that exited changes
NotifiesOrChanges ==
    \/ last'.emits # <<>>
    \/ \E id \in ProcessIds : StartReturns(id)
    \/ \E id \in DOMAIN child :
            child[id].state = "exited" /\ child'[id].state # "exited"

----------------------------------------------------------------------------
(* stopProcess and the exit event: C22 *)

\* stopProcess(id) has just returned true for a launched child that runs
StopReturnedTrue(id) ==
    /\ last.op = "stopProcess"
    /\ last.id = id
    /\ last.ret
    /\ id \in DOMAIN child
    /\ child[id].state = "alive"

\* the exit event of the child of `id` has been handled and the entry is gone
ExitHandled(id) ==
    /\ id \in DOMAIN child
    /\ child[id].state = "exited"
    /\ ~Registered(id)

\* stopProcess leaves the entry it returns true for in the registry; the exit
\* handler emits processExit for its id and removes the entry
ExitEmitsAndRemoves ==
    /\ \A id \in ProcessIds :
          (StopCalled(id) /\ last'.ret) => (Registered(id) /\ Registered(id)')
    /\ \A id \in DOMAIN child :
          ExitStep(id) =>
              /\ Len(EmittedFor(id, {"processExit"})) = 1
              /\ ~Registered(id)'

\* C22 as claimed: after stopProcess(id) has returned true the entry stays
\* registered up to the exit event of the child, and when exit events are
\* delivered the entry is removed in the end, processExit being emitted for it.
C22_StopThenExitRemoves ==
    /\ [][/\ ExitEmitsAndRemoves
          /\ \A id \in ProcessIds :
                (StoppedWindow(id) /\ child[id].state = "alive" /\ ~ExitStep(id))
                    => Registered(id)'
         ]_vars
    /\ \A id \in ProcessIds : StopReturnedTrue(id) ~> ExitHandled(id)

\* C22 as amended: after stopProcess(id) has returned true the entry stays
\* registered up to the exit event of the child or a call of stopAllProcesses,
\* whichever comes first, and when exit events are delivered the exit event
\* is handled in the end: processExit is emitted for the id and the entry is
\* not registered from then on.
C22_StopThenExitOrStopAllRemoves ==
    /\ [][/\ ExitEmitsAndRemoves
          /\ \A id \in ProcessIds :
                (StoppedWindow(id) /\ child[id].state = "alive" /\ ~ExitStep(id)
                    /\ last'.op # "stopAllProcesses")
                    => Registered(id)'
          /\ \A id \in ProcessIds : ExitHandled(id) => ExitHandled(id)'
         ]_vars
    /\ \A id \in ProcessIds : StopReturnedTrue(id) ~> ExitHandled(id)

\* C22 witness: the exit event of a child has just been handled whose entry
\* stopProcess had set to stopped and which was registered up to that event
C22_Witness ==
    /\ last.op = "exit"
    /\ Len(last.emits) = 1
    /\ last.emits[1].event = "processExit"
    /\ last.emits[1].seen # <<>>
    /\ last.emits[1].code = <<-1>>
    /\ ~Registered(last.id)

----------------------------------------------------------------------------
(* No retry: C23 *)

\* the children that were launched and have not exited
Launched == { id \in DOMAIN child : child[id].state = "alive" }

\* the steps that are not part of a start call
NoStartOps == {"stdout", "stderr", "exit", "error", "stopProcess", "stopAllProcesses"}

\* a call has a child exactly when it returned a process, and the registry
\* holds only processes of calls that did
OneChildPerCall ==
    /\ \A id \in DOMAIN calls : (calls[id].pc = "resolved") <=> (id \in DOMAIN child)
    /\ DOMAIN child \subseteq DOMAIN calls
    /\ Range(processes) \subseteq DOMAIN child

\* C23: a child is spawned, and an entry registered, only by the step of a start
\* call that follows its last probe, once per call: a call that has returned or
\* was rejected does nothing more, and no exit event, error event, output,
\* stopProcess or stopAllProcesses adds a child, launches one or adds an entry.
C23_NoRetry ==
    /\ []OneChildPerCall
    /\ [][/\ (DOMAIN child' # DOMAIN child
                \/ ~(Range(processes') \subseteq Range(processes))
                \/ ~(Launched' \subseteq Launched))
             => \E id \in ProcessIds :
                   /\ StartReturns(id)
                   /\ DOMAIN child' = DOMAIN child \cup {id}
                   /\ Range(processes') = Range(processes) \cup {id}
                   /\ Launched' \subseteq Launched \cup {id}
          /\ \A id \in DOMAIN calls :
                calls[id].pc # "probing" => calls'[id] = calls[id]
          /\ last'.op \in NoStartOps =>
                /\ DOMAIN child' = DOMAIN child
                /\ Launched' \subseteq Launched
                /\ Range(processes') \subseteq Range(processes)
                /\ nextProcessId' = nextProcessId
         ]_vars

\* C23 witness: the only child ever spawned exited with code 1 and its error
\* was handled; nothing was spawned or registered since
C23_Witness ==
    /\ last.op = "exit"
    /\ last.emits[1].code = <<1>>
    /\ DOMAIN child = {last.id}
    /\ Launched = {}
    /\ processes = <<>>
    /\ DOMAIN calls = {last.id}

----------------------------------------------------------------------------
(* The bounded search: C24 *)

\* a call probes the ports from its requested port on, at most MaxTries + 1 of
\* them; while it is suspended its next probe is pending and can complete; when
\* it is over without listen having thrown, it has a port
SearchBounded ==
    \A id \in DOMAIN calls :
        LET c == calls[id] IN
        /\ c.i \in 0 .. MaxTries
        /\ Cardinality(Probed(c)) <= MaxTries + 1
        /\ Probed(c) \subseteq Candidates(c.port)
        /\ c.pc = "probing" => ENABLED ProbeCompletes(id)
        /\ (c.pc # "probing" /\ c.thrown # "listen") =>
              /\ c.allocatedPort \in Candidates(c.port)
              /\ c.allocatedPort \in Probed(c)

\* C24: one start call makes at most 101 probes, of requestedPort and the 100
\* ports after it, one at a time and in increasing order: a probe that
\* completes either ends the search, and does when it finds its port free, or
\* is followed by the probe of the next port; the search ends after at most 101
\* probes, with a port.
C24_BoundedSearch ==
    /\ []SearchBounded
    /\ [][\A id \in ProcessIds :
             ProbeStep(id) =>
                LET c == calls[id]
                    candidate == c.port + c.i
                IN  /\ candidate \notin Probed(c)
                    /\ \A p \in Probed(c) : p < candidate
                    /\ \/ /\ calls'[id].pc = "probing"
                          /\ calls'[id].i = c.i + 1
                          /\ BindOutcome(candidate) = "EADDRINUSE"
                          /\ c.i < MaxTries
                       \/ /\ calls'[id].pc # "probing"
                          /\ calls'[id].i = c.i
                    /\ BindOutcome(candidate) \in {"listening", "EACCES"} =>
                          /\ calls'[id].pc # "probing"
                          /\ calls'[id].allocatedPort = candidate
         ]_vars

\* C24 witness: a search that ended after 101 probes, every one of them
\* reporting the port in use
C24_Witness ==
    \E id \in DOMAIN calls :
        /\ calls[id].pc # "probing"
        /\ Cardinality(Probed(calls[id])) = MaxTries + 1
        /\ \A p \in Probed(calls[id]) : BindOutcome(p) = "EADDRINUSE"
        /\ calls[id].allocatedPort = calls[id].port
        /\ last.op = "startProcess"
        /\ last.id = id

----------------------------------------------------------------------------
(* stopAllProcesses and suspended start calls: C25 *)

\* C25: when stopAllProcesses has returned, the registry stays empty until a
\* start call is issued: a call issued before, suspended in its probes, does
\* not register a process in the step that follows.
C25_EmptyAfterStopAll ==
    [][last.op = "stopAllProcesses" =>
          \/ processes' = <<>>
          \/ \E id \in ProcessIds : StartCalled(id)
      ]_vars

----------------------------------------------------------------------------
(* Events of processes that are no longer registered: C26 *)

ChildEventOps == {"stdout", "stderr", "exit", "error"}

\* C26: an output, exit or error event of a child whose process is not in the
\* registry leaves the registry as it is: the same entries in the same order,
\* each with the status and output log it had, and the same results of
\* getAllProcesses.
C26_EventsOfUnregisteredChangeNothing ==
    [][(last'.op \in ChildEventOps /\ ~Registered(last'.id)) =>
          /\ processes' = processes
          /\ \A other \in Range(processes) :
                processData'[other] = processData[other]
          /\ GetAllProcessesResult' = GetAllProcessesResult
          /\ \A other \in Range(processes) :
                View(GetProcessResult(other)[1], processData')
                    = View(GetProcessResult(other)[1], processData)
      ]_vars

\* C26 witness: the exit event of a child that stopAllProcesses had cleared has
\* just been handled, while the process of a later call is registered, running
C26_Witness ==
    /\ last.op = "exit"
    /\ last.emits[1].seen = <<>>
    /\ Len(processes) = 1
    /\ processes[1] > last.id
    /\ processData[processes[1]].status = "running"
    /\ processData[last.id].status = "error"

----------------------------------------------------------------------------
(* Forwarding of output to the renderer: C27 *)

\* C27: through the 'process:start' handler, every output notification of the
\* supervisor reaches the renderer as exactly one 'process:output' message,
\* however many start requests were handled before.
C27_OutputForwardedOnce ==
    \A k \in 1 .. Len(last.emits) :
        last.emits[k].event = "output" => Len(Forwarded(last.emits[k])) = 1

----------------------------------------------------------------------------
(* The groups store: C28, C29 *)

\* the places of the file where a repository name stands
Places(repoName) ==
    { <<k, j>> \in (1 .. MaxGroups) \X (1 .. Cardinality(RepoNames) + 1) :
        /\ k <= Len(groupsFile)
        /\ j <= Len(groupsFile[k].repoNames)
        /\ groupsFile[k].repoNames[j] = repoName }

\* C28: starting from an empty groups file, after any sequence of createGroup,
\* updateGroup, deleteGroup, addRepoToGroup, removeRepoFromGroup and
\* moveRepoToGroup calls, every repository name stands in the repoNames of at
\* most one group, and at most once there.
C28_RepoInAtMostOneGroup ==
    /\ \A k \in 1 .. Len(groupsFile) :
            Len(groupsFile[k].repoNames) <= Cardinality(RepoNames)
    /\ \A repoName \in RepoNames : Cardinality(Places(repoName)) <= 1

\* addRepoToGroup has put a second repository into a group while another
\* group exists
C28_Witness ==
    /\ last.op = "addRepoToGroup"
    /\ last.ret = "returned"
    /\ Len(groupsFile) = 2
    /\ \E k \in 1 .. 2 : Len(groupsFile[k].repoNames) = 2

UnknownGroupOps ==
    {"addRepoToGroup", "removeRepoFromGroup", "moveRepoToGroup", "updateGroup"}

\* C29: addRepoToGroup, removeRepoFromGroup, moveRepoToGroup and updateGroup
\* called with a group id that no group of the file has return null and leave
\* the file as it was; moveRepoToGroup with an unknown target does not take
\* the repository out of the group it is in.
C29_UnknownGroupChangesNothing ==
    [][(/\ last'.op \in UnknownGroupOps
        /\ FindIndex(groupsFile, last'.id) = 0)
            => (/\ last'.ret = "null"
                /\ groupsFile' = groupsFile)]_vars

\* moveRepoToGroup has returned null for a repository that is in a group
C29_Witness ==
    /\ last.op = "moveRepoToGroup"
    /\ last.ret = "null"
    /\ FindIndex(groupsFile, last.id) = 0
    /\ \E k \in 1 .. Len(groupsFile) :
            Includes(groupsFile[k].repoNames, last.repoName)

----------------------------------------------------------------------------
(* The progress protocol of installProject: C30 *)

StageRank(stage) ==
    CASE stage = "cloning" -> 1
      [] stage = "detecting" -> 2
      [] stage = "installing" -> 3
      [] stage \in {"complete", "error"} -> 4

TerminalEvent(event) == event.stage \in {"complete", "error"}

\* the call has not thrown; the stages come in the order cloning, detecting,
\* installing; a terminal event is the last one; the call has ended exactly
\* when it has a result, success with 'complete' (100) last and failure with
\* 'error' last; the command ran only for a config that has one
ProgressProtocol ==
    LET events == install.events
        n == Len(events)
    IN  /\ install.result # "rejected"
        /\ \A i, j \in 1 .. n :
                i < j => /\ ~TerminalEvent(events[i])
                         /\ StageRank(events[i].stage)
                                <= StageRank(events[j].stage)
        /\ (install.pc = "done") <=> (install.result # "none")
        /\ (install.pc = "done") <=> (n > 0 /\ TerminalEvent(events[n]))
        /\ (install.result = "success")
                <=> (n > 0 /\ events[n] = Progress("complete", 100))
        /\ (install.result = "failure")
                <=> (n > 0 /\ events[n].stage = "error")
        /\ install.ran => install.config = "command"

====
